---- MODULE Spec2Model ----
(***************************************************************************)
(* FastGradientMethod (art/attacks/fast_gradient.py) as a state machine.   *)
(*                                                                         *)
(* Numbers.  Inputs, perturbation directions and label probabilities are   *)
(* floating point in the source; here they are fixed point with Den units  *)
(* to 1, quotients truncated toward zero.  The tolerance 10e-8 added to a  *)
(* denominator is below that resolution: it shows only where the          *)
(* denominator is otherwise zero, and there the quotient is 0 (TDiv).      *)
(* eps, eps_step and eps_max are whole numbers of input units, so the sum  *)
(* current_eps += eps_step is exact.                                       *)
(*                                                                         *)
(* Arrays.  An array of shape (n, d) is a sequence of n rows, each a       *)
(* sequence of d features.  batch = adv_x[i1:i2] is a numpy view, so the   *)
(* model keeps adv_x only and reads the batch out of it (BatchOf).         *)
(*                                                                         *)
(* Calls.  A minimal generate call always names eps_step and eps_max; the  *)
(* classifier is one fixed deterministic oracle whose prediction of a row  *)
(* depends on that row alone and whose gradient depends on the batch.      *)
(***************************************************************************)
EXTENDS Integers, Sequences, FiniteSets, TLC

VARIABLES
    self,            \* the attack's stored attributes [norm, eps, targeted]
    pc,              \* position of the single thread of control
    op,              \* the public call last entered: set_params or generate
    kwargs,          \* the keyword arguments of that call
    err,             \* the exception the call raised, or "none"
    x, y,            \* generate: the clean input and the resolved labels
    eps_step, eps_max,
    adv_x,           \* the adversarial example buffer
    batch_id,
    perturbation,
    active_indices,  \* batch-relative row numbers, 1-based
    current_eps,
    current_x,       \* the candidate of the last loop iteration
    called,          \* history: classifier operations invoked by this call
    grad_calls,      \* history: batch length of every loss_gradient call
    writes,          \* history: how often _compute wrote each row
    iters,           \* history: loop iterations run in the current batch
    flip_step,       \* history: per row, the iteration at which it left the active set
    still_active     \* history: rows active when their batch's loop ended

vars == <<self, pc, op, kwargs, err, x, y, eps_step, eps_max, adv_x, batch_id,
          perturbation, active_indices, current_eps, current_x, called,
          grad_calls, writes, iters, flip_step, still_active>>

frame == <<x, y, eps_step, eps_max, adv_x, batch_id, perturbation,
           active_indices, current_eps, current_x, grad_calls, writes, iters,
           flip_step, still_active>>

-----------------------------------------------------------------------------
(* Bounds of the model.                                                    *)

\* Longest input, in rows.
MaxN == 3

\* Rows per batch.  The source fixes 128; the model scales it down so that
\* inputs of MaxN rows span a full batch, a partial batch and an empty one.
batch_size == 2

\* Fixed-point units to 1.
Den == 35

\* The iteration counter of the history stops counting here.
MaxIters == 4

-----------------------------------------------------------------------------
(* Arithmetic.                                                             *)

Min(a, b) == IF a < b THEN a ELSE b

Max(a, b) == IF a > b THEN a ELSE b

Abs(a) == IF a < 0 THEN -a ELSE a

Sign(a) == IF a > 0 THEN 1 ELSE IF a < 0 THEN -1 ELSE 0

\* a / (b + tol) at the model's resolution.
TDiv(a, b) ==
    IF b = 0 THEN 0
    ELSE IF a >= 0 THEN a \div b ELSE -((-a) \div b)

RECURSIVE SqrtSearch(_, _, _)
SqrtSearch(n, lo, hi) ==
    IF lo >= hi THEN lo
    ELSE LET mid == (lo + hi + 1) \div 2
         IN  IF mid * mid <= n THEN SqrtSearch(n, mid, hi)
             ELSE SqrtSearch(n, lo, mid - 1)

\* floor(sqrt(n)), for 0 <= n <= hi * hi
ISqrt(n, hi) == SqrtSearch(n, 0, hi)

RECURSIVE SumSeq(_)
SumSeq(s) == IF s = <<>> THEN 0 ELSE Head(s) + SumSeq(Tail(s))

SumAbs(row) == SumSeq([f \in DOMAIN row |-> Abs(row[f])])

SumSq(row) == SumSeq([f \in DOMAIN row |-> row[f] * row[f]])

\* np.argmax along a row: the first index holding the maximum.
ArgMax(row) ==
    CHOOSE i \in DOMAIN row :
        /\ \A j \in DOMAIN row : row[j] <= row[i]
        /\ \A j \in DOMAIN row : j < i => row[j] < row[i]

\* arr[i1:i2] for 0-based i1 <= i2, as numpy slices: clamped to the length.
Slice(arr, i1, i2) == SubSeq(arr, Min(i1, Len(arr)) + 1, Min(i2, Len(arr)))

-----------------------------------------------------------------------------
(* The classifier: a deterministic, stateless oracle.                      *)

clip_values == <<0, 3 * Den>>

\* Class 2 on a band of the first feature, class 1 on either side of it.
InBand(v) == v >= Den + 5 /\ v < 2 * Den

predict(batch) ==
    [j \in DOMAIN batch |-> IF InBand(batch[j][1]) THEN <<1, 3>> ELSE <<3, 1>>]

\* One raw gradient row per batch row, of the row's shape.  It depends on the
\* row's label and on the batch it is computed in (its length).
loss_gradient(batch, labels) ==
    [j \in DOMAIN batch |->
        IF ArgMax(labels[j]) = 1
        THEN <<3 * Len(batch), -4>>
        ELSE <<-4 * Len(batch), 3>>]

\* art.utils.get_labels_np_array: one-hot rows of the predicted class.
get_labels_np_array(preds) ==
    [j \in DOMAIN preds |->
        [c \in DOMAIN preds[j] |-> IF c = ArgMax(preds[j]) THEN 1 ELSE 0]]

-----------------------------------------------------------------------------
(* Configuration.                                                          *)

attack_params == {"norm", "eps", "targeted"}

\* Attack.set_params: every keyword that names an attack parameter is stored.
Attack_set_params(cfg, kw) ==
    LET keys == kw.has \cap attack_params
    IN  [norm     |-> IF "norm" \in keys THEN kw.norm ELSE cfg.norm,
         eps      |-> IF "eps" \in keys THEN kw.eps ELSE cfg.eps,
         targeted |-> IF "targeted" \in keys THEN kw.targeted ELSE cfg.targeted]

\* A set_params that checks and stores nothing.
set_params_uncommitted(cfg, kw) ==
    [self |-> cfg,
     err  |-> IF cfg.norm \notin {"inf", "1", "2"} \/ cfg.eps <= 0
              THEN "InvalidConfiguration" ELSE "none"]

\* FastGradientMethod.set_params: store, then check what is stored.
set_params(cfg, kw) ==
    LET s == Attack_set_params(cfg, kw)
    IN  [self |-> s,
         err  |-> IF s.norm \notin {"inf", "1", "2"} THEN "InvalidConfiguration"
                  ELSE IF s.eps <= 0 THEN "InvalidConfiguration"
                  ELSE "none"]

-----------------------------------------------------------------------------
(* Perturbation.                                                           *)

compute_perturbation(cfg, batch, batch_labels) ==
    LET raw  == loss_gradient(batch, batch_labels)
        flip == 1 - 2 * (IF cfg.targeted THEN 1 ELSE 0)
        grad == [j \in DOMAIN raw |-> [f \in DOMAIN raw[j] |-> raw[j][f] * flip]]
    IN  [j \in DOMAIN grad |->
            LET g == grad[j]
            IN  IF cfg.norm = "inf" THEN [f \in DOMAIN g |-> Sign(g[f]) * Den]
                ELSE IF cfg.norm = "1"
                THEN [f \in DOMAIN g |-> TDiv(g[f] * Den, SumAbs(g))]
                ELSE IF cfg.norm = "2"
                THEN [f \in DOMAIN g |->
                        TDiv(g[f] * Den * Den,
                             ISqrt(SumSq(g) * Den * Den, SumAbs(g) * Den))]
                ELSE [f \in DOMAIN g |-> g[f] * Den]]

Clip(v) == Max(clip_values[1], Min(v, clip_values[2]))

\* One row of clip(batch + eps * perturbation).
ApplyRow(row, dir, e) == [f \in DOMAIN row |-> Clip(row[f] + e * dir[f])]

\* An applier that does not clip.
apply_perturbation_unclipped(batch, pert, e) ==
    [j \in 1..(IF Len(batch) = 1 THEN Len(pert) ELSE Len(batch)) |->
        LET row == batch[IF Len(batch) = 1 THEN 1 ELSE j]
            dir == pert[IF Len(pert) = 1 THEN 1 ELSE j]
        IN  [f \in DOMAIN row |-> row[f] + e * dir[f]]]

\* numpy's broadcasting of the row axis in batch + eps * perturbation: the
\* lengths are equal or one of them is 1; any other pair raises.
Broadcasts(batch, pert) ==
    Len(batch) = Len(pert) \/ Len(pert) = 1 \/ Len(batch) = 1

\* np.clip(batch + eps * perturbation, clip_min, clip_max), where the operands
\* broadcast.
apply_perturbation(batch, pert, e) ==
    LET n == Len(batch)
        m == Len(pert)
    IN  IF n = m
        THEN [j \in 1..n |-> ApplyRow(batch[j], pert[j], e)]
        ELSE IF m = 1 THEN [j \in 1..n |-> ApplyRow(batch[j], pert[1], e)]
        ELSE IF n = 1 THEN [j \in 1..m |-> ApplyRow(batch[1], pert[j], e)]
        ELSE <<>>

-----------------------------------------------------------------------------
(* Batching.                                                               *)

\* range(adv_x.shape[0] // batch_size + 1)
NumBatches(n) == n \div batch_size + 1

batch_index_1(b) == b * batch_size

batch_index_2(b) == (b + 1) * batch_size

BatchOf(arr, b) == Slice(arr, batch_index_1(b), batch_index_2(b))

\* adv_x[batch_index_1:batch_index_2] = rows
WriteBatch(arr, b, rows) ==
    [i \in DOMAIN arr |->
        IF i > batch_index_1(b) /\ i <= batch_index_1(b) + Len(rows)
        THEN rows[i - batch_index_1(b)] ELSE arr[i]]

-----------------------------------------------------------------------------
(* Minimal-perturbation search, the pieces of one loop iteration.          *)

\* A loop entered with no step applied yet.
InitialEps_zero(step) == 0

\* current_eps = eps_step
InitialEps(step) == step

\* A loop that stops one step short of eps_max.
WhileCond_strict(active, cur, emax) == active # {} /\ cur < emax

\* while len(active_indices) != 0 and current_eps <= eps_max
WhileCond(active, cur, emax) == active # {} /\ cur <= emax

\* An update that overwrites every row of the batch.
UpdateRows_all(batch, active, cand) ==
    [j \in DOMAIN batch |-> cand[j]]

\* batch[active_indices] = current_x[active_indices]
UpdateRows(batch, active, cand) ==
    [j \in DOMAIN batch |-> IF j \in active THEN cand[j] ELSE batch[j]]

\* np.where(np.argmax(batch_labels, axis=1) == np.argmax(adv_preds, axis=1))[0]
StillCorrect(batch_labels, adv_preds) ==
    {j \in DOMAIN adv_preds : ArgMax(batch_labels[j]) = ArgMax(adv_preds[j])}

-----------------------------------------------------------------------------
(* Inputs.                                                                 *)

RowVals == {<<0, Den>>, <<Den, 2 * Den>>}

Inputs == UNION {[1..n -> RowVals] : n \in 0..MaxN}

LabelRows == {<<1, 0>>, <<0, 2>>}

NoKw ==
    [has |-> {}, norm |-> "inf", eps |-> 0, targeted |-> FALSE, y |-> "absent",
     labels |-> <<>>, minimal |-> FALSE, eps_step |-> 0, eps_max |-> 0]

\* The configuration part of a call's keywords.
Overrides ==
    { NoKw,
      [NoKw EXCEPT !.has = {"eps"}, !.eps = 0],
      [NoKw EXCEPT !.has = {"eps"}, !.eps = 2],
      [NoKw EXCEPT !.has = {"norm"}, !.norm = "3"],
      [NoKw EXCEPT !.has = {"targeted"}, !.targeted = TRUE],
      [NoKw EXCEPT !.has = {"targeted"}, !.targeted = FALSE],
      [NoKw EXCEPT !.has = {"eps", "targeted"}, !.eps = 0, !.targeted = TRUE] }

\* y of a generate call on n rows: absent, None or one label row per input row.
LabelArgs(n) ==
    {[y |-> "absent", labels |-> <<>>], [y |-> "None", labels |-> <<>>]}
    \cup {[y |-> "given", labels |-> l] : l \in [1..n -> LabelRows]}

SearchArgs ==
    {[minimal |-> FALSE, eps_step |-> 0, eps_max |-> 0]}
    \cup {[minimal |-> TRUE, eps_step |-> s, eps_max |-> m] :
            s \in 0..2, m \in {1, 3}}

GenerateKw(n) ==
    {[o EXCEPT !.y = l.y, !.labels = l.labels, !.minimal = s.minimal,
               !.eps_step = s.eps_step, !.eps_max = s.eps_max] :
        o \in Overrides, l \in LabelArgs(n), s \in SearchArgs}

\* The keywords generate passes on to _minimal_perturbation's **kwargs.
Remaining(kw) == [kw EXCEPT !.y = "absent", !.labels = <<>>]

-----------------------------------------------------------------------------
(* The state machine.                                                      *)

EmptyFrame ==
    /\ x = <<>> /\ y = <<>> /\ eps_step = 0 /\ eps_max = 0 /\ adv_x = <<>>
    /\ batch_id = 0 /\ perturbation = <<>> /\ active_indices = {}
    /\ current_eps = 0 /\ current_x = <<>> /\ grad_calls = <<>>
    /\ writes = <<>> /\ iters = 0 /\ flip_step = <<>> /\ still_active = {}

ClearFrame ==
    /\ x' = <<>> /\ y' = <<>> /\ eps_step' = 0 /\ eps_max' = 0 /\ adv_x' = <<>>
    /\ batch_id' = 0 /\ perturbation' = <<>> /\ active_indices' = {}
    /\ current_eps' = 0 /\ current_x' = <<>> /\ grad_calls' = <<>>
    /\ writes' = <<>> /\ iters' = 0 /\ flip_step' = <<>> /\ still_active' = {}

\* __init__ stores its arguments; the constructor arguments drawn here are
\* the three norm orders with the default targeted and a positive eps.
Init ==
    /\ self \in [norm : {"inf", "1", "2"}, eps : {1}, targeted : {FALSE}]
    /\ pc = "idle" /\ op = "none" /\ kwargs = NoKw /\ err = "none"
    /\ called = {}
    /\ EmptyFrame

\* set_params(**kw), called by the user.
SetParamsCall ==
    /\ pc = "idle"
    /\ \E kw \in Overrides :
        LET r == set_params(self, kw)
        IN  /\ self' = r.self
            /\ err' = r.err
            /\ pc' = IF r.err = "none" THEN "returned" ELSE "failed"
            /\ kwargs' = kw
    /\ op' = "set_params"
    /\ called' = {}
    /\ ClearFrame

\* generate(x, **kw) up to the dispatch into _compute or the first batch of
\* _minimal_perturbation.
GenerateCall ==
    /\ pc = "idle"
    /\ op' = "generate"
    /\ \E xx \in Inputs : \E kw \in GenerateKw(Len(xx)) :
        LET r      == set_params(self, kw)
            nolab  == kw.y \in {"absent", "None"}
            preds  == predict(xx)
            y0     == IF nolab THEN get_labels_np_array(preds) ELSE kw.labels
            y1     == [j \in DOMAIN y0 |->
                          [c \in DOMAIN y0[j] |-> TDiv(y0[j][c] * Den, SumSeq(y0[j]))]]
            r2     == set_params(r.self, Remaining(kw))
        IN  /\ kwargs' = kw
            /\ IF r.err # "none"
               THEN /\ self' = r.self /\ err' = r.err /\ pc' = "failed"
                    /\ called' = {} /\ ClearFrame
               ELSE IF nolab /\ r.self.targeted
               THEN /\ self' = r.self /\ err' = "MissingTargetLabels"
                    /\ pc' = "failed" /\ called' = {} /\ ClearFrame
               ELSE /\ called' = IF nolab THEN {"predict"} ELSE {}
                    /\ x' = xx /\ y' = y1
                    /\ batch_id' = 0 /\ perturbation' = <<>>
                    /\ active_indices' = {} /\ current_eps' = 0
                    /\ current_x' = <<>> /\ grad_calls' = <<>> /\ iters' = 0
                    /\ flip_step' = [i \in DOMAIN xx |-> 0]
                    /\ still_active' = {}
                    /\ writes' = [i \in DOMAIN xx |-> 0]
                    /\ IF ~kw.minimal
                       THEN \* return self._compute(x, y, self.eps)
                            /\ self' = r.self /\ err' = "none"
                            /\ eps_step' = 0 /\ eps_max' = 0
                            /\ adv_x' = xx /\ pc' = "compute_for"
                       ELSE IF kw.y = "None"
                       THEN \* y is passed both by position and in **params_cpy
                            /\ self' = r.self /\ err' = "TypeError"
                            /\ eps_step' = 0 /\ eps_max' = 0
                            /\ adv_x' = <<>> /\ pc' = "failed"
                       ELSE \* _minimal_perturbation: set_params, then the copy
                            /\ self' = r2.self /\ err' = r2.err
                            /\ eps_step' = kw.eps_step /\ eps_max' = kw.eps_max
                            /\ adv_x' = IF r2.err = "none" THEN xx ELSE <<>>
                            /\ pc' = IF r2.err = "none" THEN "minimal_for"
                                     ELSE "failed"

\* One pass of _compute's for loop.
ComputeBatch ==
    /\ pc = "compute_for"
    /\ batch_id < NumBatches(Len(adv_x))
    /\ LET batch        == BatchOf(adv_x, batch_id)
           batch_labels == BatchOf(y, batch_id)
           pert         == compute_perturbation(self, batch, batch_labels)
           out          == apply_perturbation(batch, pert, self.eps)
       IN  /\ perturbation' = pert
           /\ adv_x' = WriteBatch(adv_x, batch_id, out)
           /\ grad_calls' = Append(grad_calls, Len(batch))
           /\ writes' = [i \in DOMAIN writes |->
                            IF i > batch_index_1(batch_id)
                               /\ i <= batch_index_1(batch_id) + Len(out)
                            THEN writes[i] + 1 ELSE writes[i]]
    /\ called' = called \cup {"loss_gradient"}
    /\ batch_id' = batch_id + 1
    /\ UNCHANGED <<self, pc, op, kwargs, err, x, y, eps_step, eps_max,
                   active_indices, current_eps, current_x, iters, flip_step,
                   still_active>>

\* _compute's loop is exhausted: return adv_x.
ComputeReturn ==
    /\ pc = "compute_for"
    /\ batch_id >= NumBatches(Len(adv_x))
    /\ pc' = "returned"
    /\ UNCHANGED <<self, op, kwargs, err, called, frame>>

\* _minimal_perturbation's for loop, up to the while loop of one batch.
MinimalBatch ==
    /\ pc = "minimal_for"
    /\ batch_id < NumBatches(Len(adv_x))
    /\ LET batch        == BatchOf(adv_x, batch_id)
           batch_labels == BatchOf(y, batch_id)
       IN  /\ perturbation' = compute_perturbation(self, batch, batch_labels)
           /\ grad_calls' = Append(grad_calls, Len(batch))
           /\ active_indices' = 1..Len(batch)
    /\ called' = called \cup {"loss_gradient"}
    /\ current_eps' = InitialEps(eps_step)
    /\ iters' = 0
    /\ pc' = "while"
    /\ UNCHANGED <<self, op, kwargs, err, x, y, eps_step, eps_max, adv_x,
                   batch_id, current_x, writes, flip_step, still_active>>

\* The while condition holds: enter the loop body.
WhileEnter ==
    /\ pc = "while"
    /\ WhileCond(active_indices, current_eps, eps_max)
    /\ pc' = "body"
    /\ UNCHANGED <<self, op, kwargs, err, called, frame>>

\* The loop body: candidate, update, prediction, new active set, next eps.
WhileBody ==
    /\ pc = "body"
    /\ LET cand == apply_perturbation(x, perturbation, current_eps)
       IN  IF ~Broadcasts(x, perturbation)
           THEN \* operands could not be broadcast together
                /\ err' = "BroadcastError" /\ pc' = "failed"
                /\ current_x' = <<>>
                /\ UNCHANGED <<adv_x, active_indices, current_eps, called,
                               iters, flip_step>>
           ELSE LET batch        == BatchOf(adv_x, batch_id)
                    batch_labels == BatchOf(y, batch_id)
                    upd          == UpdateRows(batch, active_indices, cand)
                    adv_preds    == predict(upd)
                    act          == StillCorrect(batch_labels, adv_preds)
                    k            == Min(iters + 1, MaxIters)
                IN  /\ current_x' = cand
                    /\ adv_x' = WriteBatch(adv_x, batch_id, upd)
                    /\ active_indices' = act
                    /\ current_eps' = current_eps + eps_step
                    /\ called' = called \cup {"predict"}
                    /\ iters' = k
                    /\ flip_step' =
                          [i \in DOMAIN flip_step |->
                              LET j == i - batch_index_1(batch_id)
                              IN  IF /\ j \in active_indices
                                     /\ j \notin act
                                     /\ flip_step[i] = 0
                                  THEN k ELSE flip_step[i]]
                    /\ err' = err /\ pc' = "while"
    /\ UNCHANGED <<self, op, kwargs, x, y, eps_step, eps_max, batch_id,
                   perturbation, grad_calls, writes, still_active>>

\* The while condition fails: adv_x[batch_index_1:batch_index_2] = batch,
\* and on to the next batch.
WhileExit ==
    /\ pc = "while"
    /\ ~WhileCond(active_indices, current_eps, eps_max)
    /\ still_active' = still_active
                       \cup {batch_index_1(batch_id) + j : j \in active_indices}
    /\ adv_x' = WriteBatch(adv_x, batch_id, BatchOf(adv_x, batch_id))
    /\ batch_id' = batch_id + 1
    /\ pc' = "minimal_for"
    /\ UNCHANGED <<self, op, kwargs, err, x, y, eps_step, eps_max,
                   perturbation, active_indices, current_eps, current_x,
                   called, grad_calls, writes, iters, flip_step>>

\* _minimal_perturbation's for loop is exhausted: return adv_x.
MinimalReturn ==
    /\ pc = "minimal_for"
    /\ batch_id >= NumBatches(Len(adv_x))
    /\ pc' = "returned"
    /\ UNCHANGED <<self, op, kwargs, err, called, frame>>

\* The caller has the result or the exception: the call's frame is gone, the
\* attack object and what the caller saw of the call remain.
Dispose ==
    /\ pc \in {"returned", "failed"}
    /\ pc' = "idle"
    /\ kwargs' = NoKw
    /\ called' = {}
    /\ ClearFrame
    /\ UNCHANGED <<self, op, err>>

Next ==
    \/ SetParamsCall
    \/ GenerateCall
    \/ ComputeBatch
    \/ ComputeReturn
    \/ MinimalBatch
    \/ WhileEnter
    \/ WhileBody
    \/ WhileExit
    \/ MinimalReturn
    \/ Dispose

Spec == Init /\ [][Next]_vars

\* One thread of control that never pauses inside the search: while a batch's
\* loop is running, the step it is at is taken.
Looping ==
    \/ WhileEnter
    \/ WhileBody
    \/ WhileExit

FairSpec == Spec /\ WF_vars(Looping)

-----------------------------------------------------------------------------
(* What the properties below speak of.                                     *)

ValidConfiguration(cfg) == cfg.norm \in {"inf", "1", "2"} /\ cfg.eps > 0

\* An update that carries eps <= 0 or a norm outside {1, 2, infinity}.
InvalidUpdate(kw) ==
    \/ "eps" \in kw.has /\ kw.eps <= 0
    \/ "norm" \in kw.has /\ kw.norm \notin {"inf", "1", "2"}

NoLabels(kw) == kw.y \in {"absent", "None"}

SetParamsStep == pc = "idle" /\ pc' # "idle" /\ op' = "set_params"

GenerateStep == pc = "idle" /\ pc' # "idle" /\ op' = "generate"

\* One executed pass of the while loop's body.
IterationStep == pc = "body" /\ pc' = "while"

MinimalReturned == pc = "returned" /\ op = "generate" /\ kwargs.minimal

ComputeReturned == pc = "returned" /\ op = "generate" /\ ~kwargs.minimal

CeilDiv(n, d) == (n + d - 1) \div d

\* The batch that holds row i (1-based) and the row's place in it, for
\* consecutive batches of batch_size rows.
BatchOfRow(i) == (i - 1) \div batch_size

CleanBatch(arr, i) ==
    SubSeq(arr, BatchOfRow(i) * batch_size + 1,
           Min((BatchOfRow(i) + 1) * batch_size, Len(arr)))

\* The normalized gradient of row i, computed from the clean rows and the
\* labels of the batch that holds row i.
Direction(i) ==
    compute_perturbation(self, CleanBatch(x, i), CleanBatch(y, i))
        [i - BatchOfRow(i) * batch_size]

\* The labels generate derives from the classifier's predictions on x.
PredictedLabels(xx) ==
    LET l == get_labels_np_array(predict(xx))
    IN  [j \in DOMAIN l |-> [c \in DOMAIN l[j] |-> l[j][c] * Den]]

\* floor(eps_max / eps_step), for a positive step.
LastStep == IF eps_step > 0 THEN eps_max \div eps_step ELSE 0

-----------------------------------------------------------------------------
(* C1.  From a valid stored configuration, set_params with an update that  *)
(* holds eps <= 0 or an unsupported norm fails with InvalidConfiguration   *)
(* and leaves the stored norm, eps and targeted as they were.              *)
C1_RejectedUpdateLeavesConfiguration ==
    [][(SetParamsStep /\ ValidConfiguration(self) /\ InvalidUpdate(kwargs'))
          => (err' = "InvalidConfiguration" /\ self' = self)]_vars

(* C2.  A generate call without labels, whose configuration after the       *)
(* overrides is valid: targeted, it fails with MissingTargetLabels before  *)
(* any classifier operation; untargeted, it does not fail, and its labels  *)
(* are the classifier's predictions on the clean x.                        *)
C2_LabelResolution ==
    [][/\ (GenerateStep /\ NoLabels(kwargs') /\ ValidConfiguration(self')
              /\ self'.targeted)
          => (err' = "MissingTargetLabels" /\ pc' = "failed" /\ called' = {})
       /\ (op' = "generate" /\ pc' # "idle" /\ NoLabels(kwargs')
              /\ ValidConfiguration(self') /\ ~self'.targeted)
          => (err' = "none" /\ y' = PredictedLabels(x'))]_vars

(* C3.  Every iteration of the search leaves an active set that is a       *)
(* subset of the one it started from, holds no row that ever left it in    *)
(* this batch, and does not touch the rows outside the set it started from.*)
C3_ActiveSetShrinks ==
    [][IterationStep =>
          /\ active_indices' \subseteq active_indices
          /\ \A j \in active_indices' :
                flip_step'[batch_index_1(batch_id) + j] = 0
          /\ \A j \in DOMAIN BatchOf(adv_x, batch_id) \ active_indices :
                BatchOf(adv_x', batch_id)[j] = BatchOf(adv_x, batch_id)[j]]_vars

\* A second iteration has run over a batch one of whose rows left the active
\* set in the first, and another row is still active.
C3_Witness ==
    /\ pc = "while" /\ iters >= 2 /\ active_indices # {}
    /\ \E i \in DOMAIN flip_step :
          BatchOfRow(i) = batch_id /\ flip_step[i] = 1

(* C4.  A row whose predicted class first differs from its label's class   *)
(* at step k is returned as clip(x_row + k * eps_step * direction_row),    *)
(* whatever further steps the loop ran for other rows.                     *)
C4_FlippedRowKeepsItsStep ==
    MinimalReturned =>
        \A i \in DOMAIN adv_x :
            flip_step[i] >= 1 =>
                /\ flip_step[i] * eps_step <= eps_max
                /\ adv_x[i] = ApplyRow(x[i], Direction(i), flip_step[i] * eps_step)

\* Returned: one row left at the second step and was moved by it, and the
\* loop went on to a third step for another row of the batch.
C4_Witness ==
    /\ MinimalReturned
    /\ \E i, j \in DOMAIN adv_x :
          /\ flip_step[i] = 2 /\ adv_x[i] # x[i]
          /\ BatchOfRow(i) = BatchOfRow(j)
          /\ flip_step[j] >= 3 \/ (j \in still_active /\ LastStep >= 3)

(* C5.  _compute returns as many rows as x has, each written exactly once  *)
(* and equal to clip(x_i + eps * direction_i), direction_i being the       *)
(* normalized gradient of the clean rows and labels of row i's own batch.  *)
C5_FixedStepRows ==
    ComputeReturned =>
        /\ err = "none"
        /\ Len(adv_x) = Len(x)
        /\ \A i \in DOMAIN x :
              /\ writes[i] = 1
              /\ adv_x[i] = ApplyRow(x[i], Direction(i), self.eps)

\* Returned from an input of more rows than a batch holds, perturbed.
C5_Witness ==
    /\ ComputeReturned /\ Len(x) > batch_size
    /\ \A i \in DOMAIN x : adv_x[i] # x[i]

(* C6.  Every iteration of the search, in every batch, writes into each    *)
(* active row j the applier's result on clean row b * batch_size + j of    *)
(* that batch at current_eps.                                              *)
C6_CandidateFromOwnBatch ==
    [][pc = "body" =>
          /\ pc' = "while"
          /\ \A j \in active_indices :
                BatchOf(adv_x', batch_id)[j]
                    = ApplyRow(x[batch_index_1(batch_id) + j], perturbation[j],
                               current_eps)]_vars

(* C7.  The search terminates: the while loop of every batch, once        *)
(* reached, is eventually left, whatever eps_step and eps_max generate     *)
(* accepted.                                                               *)
C7_SearchTerminates ==
    (pc \in {"while", "body"}) ~> (pc \notin {"while", "body"})

(* C8.  loss_gradient is invoked ceil(N / batch_size) times, never on an   *)
(* empty batch, over consecutive slices that cover the N rows once.        *)
C8_BatchesCoverOnce ==
    /\ \A k \in DOMAIN grad_calls : grad_calls[k] > 0
    /\ (pc = "returned" /\ op = "generate") =>
          /\ Len(grad_calls) = CeilDiv(Len(x), batch_size)
          /\ SumSeq(grad_calls) = Len(x)

(* C9.  A row still active when current_eps exceeds eps_max is returned    *)
(* with no failure, as the applier's result on the clean row at            *)
(* floor(eps_max / eps_step) * eps_step; it is the clean row when no       *)
(* iteration ran.                                                          *)
C9_ExhaustedRowKeepsLastStep ==
    MinimalReturned =>
        /\ err = "none"
        /\ \A i \in still_active :
              /\ eps_step > 0
              /\ adv_x[i] = IF LastStep >= 1
                            THEN ApplyRow(x[i], Direction(i), LastStep * eps_step)
                            ELSE x[i]

\* Returned with a row that was still active after two or more steps and
\* carries the last of them.
C9_Witness ==
    /\ MinimalReturned /\ LastStep >= 2
    /\ \E i \in still_active : adv_x[i] # x[i]

====
